---- MODULE Spec2Model ----
(***************************************************************************)
(* A model of the Copilot line-tracking extension (src/src/extension.ts):  *)
(* the change classifier, the per-file / aggregate accounting and the two  *)
(* persistence destinations (the globalState slot and .copilot-stats.json).*)
(*                                                                         *)
(* Every event handler of activate() is one action; the helpers it calls   *)
(* are operators on an "engine" record holding the variables they assign.  *)
(* Strings are TLA+ strings, handled with Len / SubSeq as the code handles *)
(* them with includes / endsWith / split / trim.                           *)
(***************************************************************************)
EXTENDS Integers, Sequences, FiniteSets, TLC

\* ------------------------------------------------------------------ bounds
\* Largest line count a document reports.
MaxLines == 2
\* Last instant of the clock read by `new Date()`.
MaxTime == 1
\* Largest value pendingCopilotLines is allowed to reach.
MaxPending == 2

\* ------------------------------------------------------------ string helpers
Min(a, b) == IF a <= b THEN a ELSE b

\* String.prototype.includes
Includes(s, sub) ==
    \E i \in 1..(Len(s) - Len(sub) + 1) : SubSeq(s, i, i + Len(sub) - 1) = sub

\* String.prototype.endsWith
EndsWith(s, suf) ==
    /\ Len(suf) <= Len(s)
    /\ SubSeq(s, Len(s) - Len(suf) + 1, Len(s)) = suf

\* One character of String.prototype.toLowerCase (the letters the paths use).
LowerChar(c) ==
    CASE c = "T" -> "t"
      [] c = "S" -> "s"
      [] c = "P" -> "p"
      [] c = "Y" -> "y"
      [] c = "A" -> "a"
      [] c = "B" -> "b"
      [] OTHER -> c

RECURSIVE ToLowerCase(_)
ToLowerCase(s) ==
    IF Len(s) = 0 THEN s
    ELSE LowerChar(SubSeq(s, 1, 1)) \o ToLowerCase(SubSeq(s, 2, Len(s)))

WhiteSpace == {" ", "\t", "\r", "\n"}

RECURSIVE TrimStart(_)
TrimStart(s) ==
    IF Len(s) > 0 /\ SubSeq(s, 1, 1) \in WhiteSpace
    THEN TrimStart(SubSeq(s, 2, Len(s)))
    ELSE s

RECURSIVE TrimEnd(_)
TrimEnd(s) ==
    IF Len(s) > 0 /\ SubSeq(s, Len(s), Len(s)) \in WhiteSpace
    THEN TrimEnd(SubSeq(s, 1, Len(s) - 1))
    ELSE s

\* String.prototype.trim
Trim(s) == TrimEnd(TrimStart(s))

\* text.split('\n'): the pieces between the newlines (always at least one).
RECURSIVE SplitFrom(_, _, _)
SplitFrom(s, i, cur) ==
    IF i > Len(s) THEN <<cur>>
    ELSE IF SubSeq(s, i, i) = "\n"
         THEN <<cur>> \o SplitFrom(s, i + 1, "")
         ELSE SplitFrom(s, i + 1, cur \o SubSeq(s, i, i))

SplitLines(s) == SplitFrom(s, 1, "")

\* ------------------------------------------------------------------ inputs
\* The absolute paths of the documents the host reports events for.
Paths ==
    { "/w/a.ts", "/w/B.PY", "/w/node_modules/m.ts", "/w/.copilot-stats.json",
      "/w/.git/h.ts", "/w/response_1.ts", "/w/n.txt" }

\* The paths some setting tracks.
TrackablePaths == { "/w/a.ts", "/w/B.PY" }

\* The extension list of package.json / line 72, and a narrower user setting.
DefaultExtensions ==
    { ".js", ".jsx", ".ts", ".tsx", ".py", ".java", ".c", ".cpp", ".h", ".hpp",
      ".cs", ".go", ".rb", ".php", ".swift", ".kt", ".rs", ".dart", ".vue",
      ".html", ".css", ".scss", ".sass", ".less", ".json", ".xml", ".yaml",
      ".yml", ".md", ".sql", ".sh", ".bash", ".ps1", ".schema" }

Configs == { DefaultExtensions, {".py"} }

LineCounts == 0..MaxLines

\* ------------------------------------------------------------- the filter
shouldTrackFile(filePath, trackedExtensions) ==
    IF Includes(filePath, "/response_") \/ Includes(filePath, "\\response_")
    THEN FALSE
    ELSE IF Includes(filePath, "/.git/") \/ Includes(filePath, "\\.git\\")
    THEN FALSE
    ELSE IF Includes(filePath, "/node_modules/")
            \/ Includes(filePath, "\\node_modules\\")
    THEN FALSE
    ELSE IF EndsWith(filePath, ".copilot-stats.json")
    THEN FALSE
    ELSE \E ext \in trackedExtensions : EndsWith(ToLowerCase(filePath), ext)

\* The filter over the paths and settings of the model, evaluated once.
Tracked ==
    [extensions \in Configs |->
        [filePath \in Paths |-> shouldTrackFile(filePath, extensions)]]

\* ------------------------------------------------------------------ state
VARIABLES
    stats,                  \* CopilotStats: totalLines, copilotLines, lastUpdated, fileStats
    lastSavedStats,         \* JSON.stringify of the stats of the last snapshot write
    saveTimeout,            \* the debounce handle: "undefined", "fresh", "due" or "expired"
    timers,                 \* pending setTimeout(saveStatsToFile) timers: [fresh, due]
    lastCopilotSuggestion,  \* <<>> (undefined) or <<text>>
    isAcceptingSuggestion,
    pendingCopilotLines,
    globalState,            \* the 'copilotStats' slot: <<>> (undefined) or <<stats>>
    statsFile,              \* .copilot-stats.json: <<>> (absent) or <<RepositoryStats>>
    trackedExtensions,      \* the copilotLineTracking.trackedExtensions setting
    workspaceFolders,       \* TRUE when a workspace folder is open
    now                     \* the clock `new Date()` reads

vars ==
    << stats, lastSavedStats, saveTimeout, timers, lastCopilotSuggestion,
       isAcceptingSuggestion, pendingCopilotLines, globalState, statsFile,
       trackedExtensions, workspaceFolders, now >>

\* fileStats is kept as the sequence of its entries in insertion order, the
\* order in which JSON.stringify writes the keys of the object.
EmptyStats(t) ==
    [totalLines |-> 0, copilotLines |-> 0, lastUpdated |-> t, fileStats |-> <<>>]

HasRecord(fileStats, filePath) ==
    \E i \in 1..Len(fileStats) : fileStats[i].path = filePath

IndexOf(fileStats, filePath) ==
    CHOOSE i \in 1..Len(fileStats) : fileStats[i].path = filePath

\* stats.fileStats[filePath], the counters of an absent record read as 0.
FileRecord(fileStats, filePath) ==
    IF HasRecord(fileStats, filePath)
    THEN LET r == fileStats[IndexOf(fileStats, filePath)]
         IN  [totalLines |-> r.totalLines, copilotLines |-> r.copilotLines]
    ELSE [totalLines |-> 0, copilotLines |-> 0]

\* if (!stats.fileStats[filePath]) stats.fileStats[filePath] = {0, 0}
EnsureRecord(fileStats, filePath) ==
    IF HasRecord(fileStats, filePath) THEN fileStats
    ELSE Append(fileStats, [path |-> filePath, totalLines |-> 0, copilotLines |-> 0])

\* JSON.stringify(stats): the fields in declaration order, the file entries in
\* insertion order.
JSONstringify(s) ==
    << s.totalLines, s.copilotLines, s.lastUpdated,
       [i \in 1..Len(s.fileStats) |->
          << s.fileStats[i].path, s.fileStats[i].totalLines,
             s.fileStats[i].copilotLines >>] >>

\* What a handler did, counted from its start: globalState updates (saves),
\* setTimeout calls (schedules), snapshot writes and failed writes, filter
\* rejections (skips), and the branches of the accounting it took.
NoEffects ==
    [ saves |-> 0, schedules |-> 0, writes |-> 0, failures |-> 0, skips |-> 0,
      parked |-> 0, committed |-> 0, dropped |-> 0, firsts |-> 0, clamps |-> 0 ]

\* The variables the helpers of activate() read and assign, as one record,
\* with the effects of the running handler.
Engine ==
    [ stats |-> stats, lastSavedStats |-> lastSavedStats,
      saveTimeout |-> saveTimeout, timers |-> timers,
      pendingCopilotLines |-> pendingCopilotLines,
      globalState |-> globalState, statsFile |-> statsFile,
      trackedExtensions |-> trackedExtensions,
      workspaceFolders |-> workspaceFolders, now |-> now,
      did |-> NoEffects ]

Commit(e) ==
    /\ stats' = e.stats
    /\ lastSavedStats' = e.lastSavedStats
    /\ saveTimeout' = e.saveTimeout
    /\ timers' = e.timers
    /\ pendingCopilotLines' = e.pendingCopilotLines
    /\ globalState' = e.globalState
    /\ statsFile' = e.statsFile
    /\ trackedExtensions' = e.trackedExtensions
    /\ workspaceFolders' = e.workspaceFolders
    /\ now' = e.now

\* ------------------------------------------------------------ persistence
getRepositoryRoot(e) == IF e.workspaceFolders THEN <<"/w">> ELSE <<>>

\* saveStatsToFile with lastSavedStats assigned before the write is tried.
saveStatsToFileMarkFirst(e, writeOk) ==
    IF getRepositoryRoot(e) = <<>> THEN e
    ELSE IF JSONstringify(e.stats) = e.lastSavedStats THEN e
    ELSE IF writeOk
         THEN [e EXCEPT
                 !.statsFile = << [stats |-> e.stats, repository |-> "w",
                                   lastUpdated |-> e.now] >>,
                 !.lastSavedStats = JSONstringify(e.stats),
                 !.did.writes = @ + 1]
         ELSE [e EXCEPT !.lastSavedStats = JSONstringify(e.stats),
                        !.did.failures = @ + 1]

\* writeOk: whether fs.writeFileSync returns (TRUE) or throws (FALSE).
saveStatsToFile(e, writeOk) ==
    IF getRepositoryRoot(e) = <<>> THEN e
    ELSE LET currentStats == JSONstringify(e.stats)
         IN  IF currentStats = e.lastSavedStats THEN e
             ELSE IF writeOk
                  THEN [e EXCEPT
                          !.statsFile = << [stats |-> e.stats,
                                            repository |-> "w",
                                            lastUpdated |-> e.now] >>,
                          !.lastSavedStats = currentStats,
                          !.did.writes = @ + 1]
                  ELSE [e EXCEPT !.did.failures = @ + 1]

\* scheduleSave without the clearTimeout of lines 120-122.
scheduleSaveKeep(e) ==
    [e EXCEPT !.timers.fresh = @ + 1,
              !.saveTimeout = "fresh",
              !.did.schedules = @ + 1]

scheduleSave(e) ==
    LET cleared ==
            IF e.saveTimeout \in {"fresh", "due"}
            THEN [e.timers EXCEPT ![e.saveTimeout] = @ - 1]
            ELSE e.timers
    IN  [e EXCEPT !.timers = [cleared EXCEPT !.fresh = @ + 1],
                  !.saveTimeout = "fresh",
                  !.did.schedules = @ + 1]

\* saveStats without the globalState update: the debounce timer alone.
saveStatsTimerOnly(e) == scheduleSave([e EXCEPT !.did.saves = @ + 1])

saveStats(e) ==
    scheduleSave([e EXCEPT !.globalState = <<e.stats>>, !.did.saves = @ + 1])

clearStats(e, writeOk) ==
    LET cleared == EmptyStats(e.now)
    IN  saveStatsToFile(
            [e EXCEPT !.stats = cleared,
                      !.lastSavedStats = JSONstringify(cleared),
                      !.globalState = <<>>],
            writeOk)

\* ------------------------------------------------------------- accounting
\* The first-content attribution that leaves the remainder pending.
firstContentKeepRemainder(e, i, oldTotal, lineCount) ==
    IF oldTotal = 0 /\ e.pendingCopilotLines > 0
    THEN [e EXCEPT !.stats.fileStats[i].copilotLines =
                       Min(e.pendingCopilotLines, lineCount),
                   !.stats.copilotLines =
                       @ + Min(e.pendingCopilotLines, lineCount),
                   !.pendingCopilotLines =
                       @ - Min(e.pendingCopilotLines, lineCount),
                   !.did.firsts = @ + 1]
    ELSE e

\* Variants of the first-content attribution: one that forgets the
\* aggregate, one that adds the pending lines to it without the cap.
firstContentFileOnly(e, i, oldTotal, lineCount) ==
    IF oldTotal = 0 /\ e.pendingCopilotLines > 0
    THEN [e EXCEPT !.stats.fileStats[i].copilotLines =
                       Min(e.pendingCopilotLines, lineCount),
                   !.pendingCopilotLines = 0,
                   !.did.firsts = @ + 1]
    ELSE e

firstContentUncapped(e, i, oldTotal, lineCount) ==
    IF oldTotal = 0 /\ e.pendingCopilotLines > 0
    THEN [e EXCEPT !.stats.fileStats[i].copilotLines =
                       Min(e.pendingCopilotLines, lineCount),
                   !.stats.copilotLines = @ + e.pendingCopilotLines,
                   !.pendingCopilotLines = 0,
                   !.did.firsts = @ + 1]
    ELSE e

\* Lines 153-158: the first content of a file takes the pending lines.
firstContent(e, i, oldTotal, lineCount) ==
    IF oldTotal = 0 /\ e.pendingCopilotLines > 0
    THEN LET take == Min(e.pendingCopilotLines, lineCount)
         IN  [e EXCEPT !.stats.fileStats[i].copilotLines = take,
                       !.stats.copilotLines = @ + take,
                       !.pendingCopilotLines = 0,
                       !.did.firsts = @ + 1]
    ELSE e

\* Variants of the clamp: none at all, and one that forgets the aggregate.
clampNever(e, i, lineCount) == e

clampFileOnly(e, i, lineCount) ==
    IF e.stats.fileStats[i].copilotLines > lineCount
    THEN [e EXCEPT !.stats.fileStats[i].copilotLines = lineCount,
                   !.did.clamps = @ + 1]
    ELSE e

\* Lines 160-165: copilot lines never exceed total lines.
clamp(e, i, lineCount) ==
    LET c == e.stats.fileStats[i].copilotLines
    IN  IF c > lineCount
        THEN [e EXCEPT !.stats.fileStats[i].copilotLines = lineCount,
                       !.stats.copilotLines = @ - (c - lineCount),
                       !.did.clamps = @ + 1]
        ELSE e

\* updateFileStats that drops the record of a path the filter rejects.
updateFileStatsForget(e, document) ==
    IF ~Tracked[e.trackedExtensions][document.path]
    THEN [e EXCEPT !.stats.fileStats =
                       SelectSeq(@, LAMBDA r : r.path # document.path),
                   !.did.skips = @ + 1]
    ELSE LET fs0 == EnsureRecord(e.stats.fileStats, document.path)
             i == IndexOf(fs0, document.path)
             oldTotal == fs0[i].totalLines
             e0 == [e EXCEPT !.stats.fileStats = fs0]
         IN  IF oldTotal = document.lineCount THEN e0
             ELSE saveStats(
                    [clamp(firstContent(
                               [e0 EXCEPT
                                  !.stats.fileStats[i].totalLines =
                                      document.lineCount,
                                  !.stats.totalLines =
                                      @ - oldTotal + document.lineCount],
                               i, oldTotal, document.lineCount),
                           i, document.lineCount)
                     EXCEPT !.stats.lastUpdated = e.now])

\* updateFileStats without the comparison of the old total with the new.
updateFileStatsUnguarded(e, document) ==
    LET filePath == document.path
        lineCount == document.lineCount
    IN  IF ~Tracked[e.trackedExtensions][filePath]
        THEN [e EXCEPT !.did.skips = @ + 1]
        ELSE LET fs0 == EnsureRecord(e.stats.fileStats, filePath)
                 i == IndexOf(fs0, filePath)
                 oldTotal == fs0[i].totalLines
                 e1 == [e EXCEPT
                          !.stats.fileStats = [fs0 EXCEPT ![i].totalLines = lineCount],
                          !.stats.totalLines = @ - oldTotal + lineCount]
                 e2 == firstContent(e1, i, oldTotal, lineCount)
                 e3 == clamp(e2, i, lineCount)
             IN  saveStats([e3 EXCEPT !.stats.lastUpdated = e.now])

\* document: [path, lineCount]
updateFileStats(e, document) ==
    LET filePath == document.path
        lineCount == document.lineCount
    IN  IF ~Tracked[e.trackedExtensions][filePath]
        THEN [e EXCEPT !.did.skips = @ + 1]
        ELSE LET fs0 == EnsureRecord(e.stats.fileStats, filePath)
                 i == IndexOf(fs0, filePath)
                 oldTotal == fs0[i].totalLines
                 e0 == [e EXCEPT !.stats.fileStats = fs0]
             IN  IF oldTotal = lineCount THEN e0
                 ELSE LET e1 == [e0 EXCEPT
                                   !.stats.fileStats[i].totalLines = lineCount,
                                   !.stats.totalLines = @ - oldTotal + lineCount]
                          e2 == firstContent(e1, i, oldTotal, lineCount)
                          e3 == clamp(e2, i, lineCount)
                      IN  saveStats([e3 EXCEPT !.stats.lastUpdated = e.now])

\* text.split('\n').filter(line => line.trim().length > 0).length
countNonEmptyLines(text) ==
    LET lines == SplitLines(text)
    IN  Cardinality({k \in 1..Len(lines) : Len(Trim(lines[k])) > 0})

\* contentChanges.reduce((count, change) => count + countNonEmptyLines(change.text), 0)
RECURSIVE SumNonEmptyLines(_)
SumNonEmptyLines(contentChanges) ==
    IF contentChanges = <<>> THEN 0
    ELSE countNonEmptyLines(Head(contentChanges))
         + SumNonEmptyLines(Tail(contentChanges))

\* ------------------------------------------------------------- classifier
\* Variants of the callback: the offered text looked at before the flag,
\* and the flag never cleared.
isCopilotTextSuggestionFirst(c, newText) ==
    IF /\ c.lastCopilotSuggestion # <<>>
       /\ Len(c.lastCopilotSuggestion[1]) > 0
       /\ Includes(newText, c.lastCopilotSuggestion[1])
    THEN [result |-> TRUE, c |-> [c EXCEPT !.lastCopilotSuggestion = <<>>]]
    ELSE IF c.isAcceptingSuggestion
    THEN [result |-> TRUE, c |-> [c EXCEPT !.isAcceptingSuggestion = FALSE]]
    ELSE [result |-> \/ Includes(newText, "\n")
                     \/ \E ch \in {";", "}", ")", "]", "\"", "'"} :
                            EndsWith(Trim(newText), ch),
          c |-> c]

isCopilotTextKeepFlag(c, newText) ==
    IF c.isAcceptingSuggestion
    THEN [result |-> TRUE, c |-> c]
    ELSE IF /\ c.lastCopilotSuggestion # <<>>
            /\ Len(c.lastCopilotSuggestion[1]) > 0
            /\ Includes(newText, c.lastCopilotSuggestion[1])
    THEN [result |-> TRUE, c |-> [c EXCEPT !.lastCopilotSuggestion = <<>>]]
    ELSE [result |-> \/ Includes(newText, "\n")
                     \/ \E ch \in {";", "}", ")", "]", "\"", "'"} :
                            EndsWith(Trim(newText), ch),
          c |-> c]

\* c: [isAcceptingSuggestion, lastCopilotSuggestion]; the callback of
\* contentChanges.some for one change: [result, c].
isCopilotText(c, newText) ==
    IF c.isAcceptingSuggestion
    THEN [result |-> TRUE, c |-> [c EXCEPT !.isAcceptingSuggestion = FALSE]]
    ELSE IF /\ c.lastCopilotSuggestion # <<>>
            /\ Len(c.lastCopilotSuggestion[1]) > 0
            /\ Includes(newText, c.lastCopilotSuggestion[1])
    THEN [result |-> TRUE, c |-> [c EXCEPT !.lastCopilotSuggestion = <<>>]]
    ELSE LET isMultiLine == Includes(newText, "\n")
             isCompleteStatement ==
                 \E ch \in {";", "}", ")", "]", "\"", "'"} :
                     EndsWith(Trim(newText), ch)
         IN  [result |-> isMultiLine \/ isCompleteStatement, c |-> c]

\* contentChanges.some(...): stops at the first change judged Copilot's.
RECURSIVE someCopilotChange(_, _)
someCopilotChange(c, contentChanges) ==
    IF contentChanges = <<>> THEN [result |-> FALSE, c |-> c]
    ELSE LET first == isCopilotText(c, Head(contentChanges))
         IN  IF first.result THEN first
             ELSE someCopilotChange(first.c, Tail(contentChanges))

\* The texts of the edit events: the contentChanges lists of the model.
ContentChangeLists ==
    { <<>>, <<"x">>, <<"x;">>, <<"\n">>, <<"a\nb">>,
      <<"x", "x;">>, <<"x;", "a\nb">> }

\* The text of the line a suggestion is offered on.
SuggestionLines == { "", "x" }

ClassifierStates ==
    [ isAcceptingSuggestion : BOOLEAN,
      lastCopilotSuggestion : {<<>>} \cup { <<l>> : l \in SuggestionLines } ]

\* The classification and the line count of each contentChanges list,
\* evaluated once.
Classified ==
    [c \in ClassifierStates |->
        [contentChanges \in ContentChangeLists |->
            someCopilotChange(c, contentChanges)]]

NewLines ==
    [contentChanges \in ContentChangeLists |->
        SumNonEmptyLines(contentChanges)]

\* The attribution without the comparison with the file's total.
applyCopilotLinesUnchecked(e, filePath, newLines) ==
    LET fs0 == EnsureRecord(e.stats.fileStats, filePath)
        i == IndexOf(fs0, filePath)
        e0 == [e EXCEPT !.stats.fileStats = fs0]
    IN  IF newLines > 0
        THEN IF fs0[i].totalLines = 0
             THEN [e0 EXCEPT !.pendingCopilotLines = @ + newLines,
                             !.did.parked = @ + 1]
             ELSE saveStats(
                    [e0 EXCEPT
                       !.stats.fileStats[i].copilotLines = @ + newLines,
                       !.stats.copilotLines = @ + newLines,
                       !.stats.lastUpdated = e.now,
                       !.did.committed = @ + 1])
        ELSE e0

\* Lines 227-255: the attribution of the new lines of a Copilot change.
applyCopilotLines(e, filePath, newLines) ==
    LET fs0 == EnsureRecord(e.stats.fileStats, filePath)
        i == IndexOf(fs0, filePath)
        e0 == [e EXCEPT !.stats.fileStats = fs0]
    IN  IF newLines > 0
        THEN IF fs0[i].totalLines = 0
             THEN [e0 EXCEPT !.pendingCopilotLines = @ + newLines,
                             !.did.parked = @ + 1]
             ELSE LET currentTotal == fs0[i].totalLines
                      currentCopilot == fs0[i].copilotLines
                      newCopilotTotal == currentCopilot + newLines
                  IN  IF newCopilotTotal <= currentTotal
                      THEN saveStats(
                             [e0 EXCEPT
                                !.stats.fileStats[i].copilotLines = newCopilotTotal,
                                !.stats.copilotLines = @ + newLines,
                                !.stats.lastUpdated = e.now,
                                !.did.committed = @ + 1])
                      ELSE [e0 EXCEPT !.did.dropped = @ + 1]
        ELSE e0

\* The attribution applied whatever the verdict of the classifier.
attributeChangeAlways(e, c, filePath, contentChanges) ==
    [ e |-> applyCopilotLines(e, filePath, NewLines[contentChanges]),
      c |-> Classified[c][contentChanges].c,
      isCopilotChange |-> Classified[c][contentChanges].result ]

\* Lines 199-255: the classification of an edit and, for a Copilot change,
\* its attribution. c: the classifier state; the result: [e, c, isCopilotChange].
attributeChange(e, c, filePath, contentChanges) ==
    LET isCopilotChange == Classified[c][contentChanges]
        newLines == NewLines[contentChanges]
    IN  [ e |-> IF isCopilotChange.result
                THEN applyCopilotLines(e, filePath, newLines)
                ELSE e,
          c |-> isCopilotChange.c,
          isCopilotChange |-> isCopilotChange.result ]

\* textDocuments.forEach(document => updateFileStats(document))
RECURSIVE updateAllFileStats(_, _)
updateAllFileStats(e, textDocuments) ==
    IF textDocuments = <<>> THEN e
    ELSE updateAllFileStats(updateFileStats(e, Head(textDocuments)),
                            Tail(textDocuments))

\* The handler without its filter at lines 194-197.
onDidChangeTextDocumentUnfiltered(e, c, filePath, lineCount, contentChanges) ==
    LET a == attributeChange(e, c, filePath, contentChanges)
    IN  [ e |-> updateFileStats(
                   a.e, [path |-> filePath, lineCount |-> lineCount]),
          c |-> a.c, mid |-> a.e,
          tracked |-> Tracked[e.trackedExtensions][filePath],
          isCopilotChange |-> a.isCopilotChange ]

\* The handler with the total update before the attribution.
onDidChangeTextDocumentTotalFirst(e, c, filePath, lineCount, contentChanges) ==
    IF ~Tracked[e.trackedExtensions][filePath]
    THEN [ e |-> [e EXCEPT !.did.skips = @ + 1], c |-> c, mid |-> e,
           tracked |-> FALSE, isCopilotChange |-> FALSE ]
    ELSE LET u == updateFileStats(
                      e, [path |-> filePath, lineCount |-> lineCount])
             a == attributeChange(u, c, filePath, contentChanges)
         IN  [ e |-> a.e, c |-> a.c, mid |-> u, tracked |-> TRUE,
               isCopilotChange |-> a.isCopilotChange ]

\* The handler of onDidChangeTextDocument, lines 190-258. c: the classifier
\* state. The result: e and c after the handler, mid: e after the
\* attribution and before updateFileStats, tracked: whether the filter let
\* the event in.
onDidChangeTextDocument(e, c, filePath, lineCount, contentChanges) ==
    IF ~Tracked[e.trackedExtensions][filePath]
    THEN [ e |-> [e EXCEPT !.did.skips = @ + 1], c |-> c, mid |-> e,
           tracked |-> FALSE, isCopilotChange |-> FALSE ]
    ELSE LET a == attributeChange(e, c, filePath, contentChanges)
         IN  [ e |-> updateFileStats(
                        a.e, [path |-> filePath, lineCount |-> lineCount]),
               c |-> a.c, mid |-> a.e, tracked |-> TRUE,
               isCopilotChange |-> a.isCopilotChange ]

\* The handler of onDidOpenTextDocument, lines 261-263.
onDidOpenTextDocument(e, document) == updateFileStats(e, document)

\* The handler of onDidChangeConfiguration, lines 266-273, for an event
\* that affects copilotLineTracking: the setting is already the new one.
onDidChangeConfiguration(e, extensions, textDocuments) ==
    updateAllFileStats([e EXCEPT !.trackedExtensions = extensions],
                       textDocuments)

\* activate(), lines 18-33 and 315, over the stored slot.
activate(e, folders, writeOk) ==
    LET loaded == IF e.globalState # <<>> THEN e.globalState[1]
                  ELSE EmptyStats(e.now)
    IN  saveStatsToFile(
            [e EXCEPT !.stats = loaded,
                      !.lastSavedStats = JSONstringify(loaded),
                      !.saveTimeout = "undefined",
                      !.timers = [fresh |-> 0, due |-> 0],
                      !.pendingCopilotLines = 0,
                      !.workspaceFolders = folders],
            writeOk)

\* The classifier state, as a record.
Classifier ==
    [isAcceptingSuggestion |-> isAcceptingSuggestion,
     lastCopilotSuggestion |-> lastCopilotSuggestion]

\* ----------------------------------------------------------- event inputs
\* An environment says which events the host delivers: the paths and line
\* counts of the documents, the texts of the edits, the suggestions, the
\* settings, whether a workspace folder is open, whether writes can fail.
Documents(paths, lineCounts) == [path : paths, lineCount : lineCounts]

\* vscode.workspace.textDocuments: at most two documents, in any order.
TextDocumentLists(paths, lineCounts) ==
    {<<>>} \cup { <<d>> : d \in Documents(paths, lineCounts) }
           \cup { <<pair[1], pair[2]>> :
                     pair \in { q \in Documents(paths, lineCounts)
                                      \X Documents(paths, lineCounts) :
                                   q[1].path # q[2].path } }

\* ------------------------------------------------------------------ Init
\* activate() on a fresh installation: no stored stats, no snapshot file.
InitIn(env) ==
    /\ now = 0
    /\ stats = EmptyStats(0)
    /\ lastSavedStats = JSONstringify(EmptyStats(0))
    /\ saveTimeout = "undefined"
    /\ timers = [fresh |-> 0, due |-> 0]
    /\ lastCopilotSuggestion = <<>>
    /\ isAcceptingSuggestion = FALSE
    /\ pendingCopilotLines = 0
    /\ globalState = <<>>
    /\ statsFile = <<>>
    /\ trackedExtensions = DefaultExtensions
    /\ workspaceFolders \in env.folders

\* --------------------------------------------------------------- actions
\* provideInlineCompletionItems
InlineSuggestion(env) ==
    \E currentLine \in env.suggestionLines, automatic \in env.automatic :
        /\ lastCopilotSuggestion' =
               IF automatic THEN <<currentLine>> ELSE lastCopilotSuggestion
        /\ isAcceptingSuggestion' =
               IF automatic THEN TRUE ELSE isAcceptingSuggestion
        /\ UNCHANGED << stats, lastSavedStats, saveTimeout, timers,
                        pendingCopilotLines, globalState, statsFile,
                        trackedExtensions, workspaceFolders, now >>

\* onDidChangeTextDocument
ChangeTextDocument(env) ==
    \E filePath \in env.paths, lineCount \in env.lineCounts,
       contentChanges \in env.contentChanges :
        \E h \in { onDidChangeTextDocument(Engine, Classifier, filePath,
                                           lineCount, contentChanges) } :
            /\ h.mid.pendingCopilotLines <= MaxPending
            /\ Commit(h.e)
            /\ isAcceptingSuggestion' = h.c.isAcceptingSuggestion
            /\ lastCopilotSuggestion' = h.c.lastCopilotSuggestion

\* onDidOpenTextDocument
OpenTextDocument(env) ==
    \E document \in Documents(env.paths, env.lineCounts) :
        /\ Commit(onDidOpenTextDocument(Engine, document))
        /\ UNCHANGED << lastCopilotSuggestion, isAcceptingSuggestion >>

\* onDidChangeConfiguration, for a change that affects copilotLineTracking
ChangeConfiguration(env) ==
    \E extensions \in env.configs,
       textDocuments \in TextDocumentLists(env.openPaths, env.lineCounts) :
        /\ Commit(onDidChangeConfiguration(Engine, extensions, textDocuments))
        /\ UNCHANGED << lastCopilotSuggestion, isAcceptingSuggestion >>

\* the copilot-line-tracking.clearStats command
ClearStats(env) ==
    \E writeOk \in env.writeOk :
        /\ Commit(clearStats(Engine, writeOk))
        /\ UNCHANGED << lastCopilotSuggestion, isAcceptingSuggestion >>

\* A pending setTimeout(saveStatsToFile, 5000) expires.
SaveTimerExpires(env) ==
    \E writeOk \in env.writeOk :
        /\ timers.due > 0
        /\ LET e == saveStatsToFile(Engine, writeOk)
           IN  Commit([e EXCEPT
                         !.timers.due = @ - 1,
                         !.saveTimeout =
                             IF saveTimeout = "due" THEN "expired" ELSE @])
        /\ UNCHANGED << lastCopilotSuggestion, isAcceptingSuggestion >>

\* The debounce delay passes: every pending timer becomes due.
Tick ==
    /\ now < MaxTime
    /\ now' = now + 1
    /\ timers' = [fresh |-> 0, due |-> timers.due + timers.fresh]
    /\ saveTimeout' = IF saveTimeout = "fresh" THEN "due" ELSE saveTimeout
    /\ UNCHANGED << stats, lastSavedStats, lastCopilotSuggestion,
                    isAcceptingSuggestion, pendingCopilotLines, globalState,
                    statsFile, trackedExtensions, workspaceFolders >>

\* The extension host restarts: activate() runs again over the stored slot
\* and the snapshot file; the timers and the closure variables are gone.
Restart(env) ==
    \E folders \in env.folders, writeOk \in env.writeOk :
        /\ Commit(activate(Engine, folders, writeOk))
        /\ lastCopilotSuggestion' = <<>>
        /\ isAcceptingSuggestion' = FALSE

\* ---------------------------------------------------------- environments
\* One session of editing with no workspace folder open and suggestions
\* requested by hand only: the accounting in full.
Session ==
    [ paths |-> TrackablePaths \cup { "/w/node_modules/m.ts" },
      openPaths |-> TrackablePaths,
      lineCounts |-> LineCounts,
      contentChanges |-> { <<"x">>, <<"x;">>, <<"\n">>, <<"a\nb">>,
                           <<"x;", "a\nb">> },
      suggestionLines |-> { "x" },
      automatic |-> { FALSE },
      configs |-> Configs,
      folders |-> { FALSE },
      writeOk |-> { TRUE } ]

Init == InitIn(Session)

Next ==
    \/ InlineSuggestion(Session)
    \/ ChangeTextDocument(Session)
    \/ OpenTextDocument(Session)
    \/ ChangeConfiguration(Session)
    \/ ClearStats(Session)
    \/ SaveTimerExpires(Session)
    \/ Tick

Spec == Init /\ [][Next]_vars

\* Sessions over one document, with a workspace folder open or not,
\* suggestions offered automatically, writes that can fail and restarts of
\* the extension host: the persistence in full.
Workspace ==
    [ paths |-> { "/w/a.ts", "/w/node_modules/m.ts" },
      openPaths |-> { "/w/a.ts" },
      lineCounts |-> LineCounts,
      contentChanges |-> { <<>>, <<"x;">> },
      suggestionLines |-> { "x" },
      automatic |-> BOOLEAN,
      configs |-> { DefaultExtensions },
      folders |-> BOOLEAN,
      writeOk |-> BOOLEAN ]

InitPersistence == InitIn(Workspace)

NextPersistence ==
    \/ InlineSuggestion(Workspace)
    \/ ChangeTextDocument(Workspace)
    \/ OpenTextDocument(Workspace)
    \/ ChangeConfiguration(Workspace)
    \/ ClearStats(Workspace)
    \/ SaveTimerExpires(Workspace)
    \/ Tick
    \/ Restart(Workspace)

SpecPersistence == InitPersistence /\ [][NextPersistence]_vars

\* Short sessions over every kind of path, under both settings: the filter
\* in full.
Filter ==
    [ paths |-> Paths,
      openPaths |-> { "/w/a.ts", "/w/n.txt" },
      lineCounts |-> { 0, MaxLines },
      contentChanges |-> { <<>>, <<"a\nb">> },
      suggestionLines |-> { "x" },
      automatic |-> { FALSE },
      configs |-> Configs,
      folders |-> { FALSE },
      writeOk |-> { TRUE } ]

InitFilter == InitIn(Filter)

NextFilter ==
    \/ InlineSuggestion(Filter)
    \/ ChangeTextDocument(Filter)
    \/ OpenTextDocument(Filter)
    \/ ChangeConfiguration(Filter)
    \/ ClearStats(Filter)
    \/ SaveTimerExpires(Filter)
    \/ Tick

SpecFilter == InitFilter /\ [][NextFilter]_vars

\* Sessions over one document with a workspace folder open and writes that
\* always succeed: the snapshot file when nothing fails.
Reliable ==
    [ paths |-> { "/w/a.ts" },
      openPaths |-> { "/w/a.ts" },
      lineCounts |-> LineCounts,
      contentChanges |-> { <<>>, <<"x;">> },
      suggestionLines |-> { "x" },
      automatic |-> { FALSE },
      configs |-> { DefaultExtensions },
      folders |-> { TRUE },
      writeOk |-> { TRUE } ]

InitReliable == InitIn(Reliable)

NextReliable ==
    \/ InlineSuggestion(Reliable)
    \/ ChangeTextDocument(Reliable)
    \/ OpenTextDocument(Reliable)
    \/ ChangeConfiguration(Reliable)
    \/ ClearStats(Reliable)
    \/ SaveTimerExpires(Reliable)
    \/ Tick
    \/ Restart(Reliable)

SpecReliable == InitReliable /\ [][NextReliable]_vars

\* Sessions over one document with suggestions offered automatically and
\* every kind of edit text: the classifier in full.
Typing ==
    [ paths |-> { "/w/a.ts" },
      openPaths |-> { "/w/a.ts" },
      lineCounts |-> LineCounts,
      contentChanges |-> ContentChangeLists,
      suggestionLines |-> SuggestionLines,
      automatic |-> BOOLEAN,
      configs |-> { DefaultExtensions },
      folders |-> { FALSE },
      writeOk |-> { TRUE } ]

InitClassifier == InitIn(Typing)

NextClassifier ==
    \/ InlineSuggestion(Typing)
    \/ ChangeTextDocument(Typing)
    \/ OpenTextDocument(Typing)
    \/ ChangeConfiguration(Typing)
    \/ ClearStats(Typing)
    \/ SaveTimerExpires(Typing)
    \/ Tick

SpecClassifier == InitClassifier /\ [][NextClassifier]_vars

\* Sessions in which every document reports at least one line.
NonEmpty ==
    [ paths |-> TrackablePaths,
      openPaths |-> { "/w/a.ts" },
      lineCounts |-> 1..MaxLines,
      contentChanges |-> { <<"x">>, <<"x;">>, <<"a\nb">> },
      suggestionLines |-> { "x" },
      automatic |-> { FALSE },
      configs |-> { DefaultExtensions },
      folders |-> { FALSE },
      writeOk |-> { TRUE } ]

InitNonEmpty == InitIn(NonEmpty)

NextNonEmpty ==
    \/ InlineSuggestion(NonEmpty)
    \/ ChangeTextDocument(NonEmpty)
    \/ OpenTextDocument(NonEmpty)
    \/ ChangeConfiguration(NonEmpty)
    \/ ClearStats(NonEmpty)
    \/ SaveTimerExpires(NonEmpty)
    \/ Tick

SpecNonEmpty == InitNonEmpty /\ [][NextNonEmpty]_vars

\* ================================================================ claims
\* Helpers of the claims: the sums over the per-file records, and what a
\* claim compares of two engine records.
RECURSIVE SumTotalLines(_)
SumTotalLines(fileStats) ==
    IF fileStats = <<>> THEN 0
    ELSE Head(fileStats).totalLines + SumTotalLines(Tail(fileStats))

RECURSIVE SumCopilotLines(_)
SumCopilotLines(fileStats) ==
    IF fileStats = <<>> THEN 0
    ELSE Head(fileStats).copilotLines + SumCopilotLines(Tail(fileStats))

\* The accounting and the two persistence triggers are the same in a and b.
SameAccounting(a, b) ==
    /\ a.stats = b.stats
    /\ a.pendingCopilotLines = b.pendingCopilotLines
    /\ a.globalState = b.globalState
    /\ a.saveTimeout = b.saveTimeout
    /\ a.timers = b.timers
    /\ a.did.saves = b.did.saves
    /\ a.did.schedules = b.did.schedules

\* The edit events of the sessions: what onDidChangeTextDocument is given.
SessionEdits == Session.paths \X Session.lineCounts \X Session.contentChanges

\* The handler's result for the edit x = <<filePath, lineCount, contentChanges>>.
Edited(x) == onDidChangeTextDocument(Engine, Classifier, x[1], x[2], x[3])

\* ---- C1
\* C1: after any sequence of completed handlers, every per-file record and
\* the aggregate satisfy 0 <= copilotLines <= totalLines.
C1_CopilotWithinTotal ==
    /\ 0 <= stats.copilotLines
    /\ stats.copilotLines <= stats.totalLines
    /\ \A i \in 1..Len(stats.fileStats) :
          /\ 0 <= stats.fileStats[i].copilotLines
          /\ stats.fileStats[i].copilotLines <= stats.fileStats[i].totalLines

\* A file all of whose lines are Copilot's beside one with none of them.
C1_Witness ==
    /\ \E i \in 1..Len(stats.fileStats) :
          /\ stats.fileStats[i].totalLines = MaxLines
          /\ stats.fileStats[i].copilotLines = MaxLines
    /\ \E i \in 1..Len(stats.fileStats) :
          /\ stats.fileStats[i].totalLines > 0
          /\ stats.fileStats[i].copilotLines = 0

\* ---- C2
\* C2: after any sequence of completed handlers, the aggregate totalLines is
\* the sum of the per-file totalLines and the aggregate copilotLines the sum
\* of the per-file copilotLines.
C2_AggregateIsSum ==
    /\ stats.totalLines = SumTotalLines(stats.fileStats)
    /\ stats.copilotLines = SumCopilotLines(stats.fileStats)

\* Two files with Copilot lines, one of them clamped or capped at its total.
C2_Witness ==
    /\ Len(stats.fileStats) = 2
    /\ stats.fileStats[1].copilotLines > 0
    /\ stats.fileStats[2].copilotLines > 0
    /\ stats.fileStats[1].totalLines # stats.fileStats[2].totalLines
    /\ stats.copilotLines >= 2

\* ---- C3
\* The edit x adds Copilot lines that do not fit the stored total of its file.
Overflows(x) ==
    LET r == FileRecord(stats.fileStats, x[1])
    IN  /\ Tracked[trackedExtensions][x[1]]
        /\ Classified[Classifier][x[3]].result
        /\ NewLines[x[3]] > 0
        /\ r.totalLines > 0
        /\ r.copilotLines + NewLines[x[3]] > r.totalLines

\* C3: overflow rejection: an attribution of count > 0 lines to a file whose
\* stored total is positive and smaller than copilotLines + count changes
\* neither the stats (records, aggregate, lastUpdated) nor PendingAttribution,
\* writes no quick-reload slot and schedules no flush.
C3_OverflowDropped ==
    \A x \in SessionEdits :
        Overflows(x) =>
            \A h \in { Edited(x) } :
                /\ SameAccounting(h.mid, Engine)
                /\ h.mid.did.dropped = 1

\* The overflow case happens, and the same lines would fit a longer file.
C3_Witness ==
    \E x \in SessionEdits :
        /\ Overflows(x)
        /\ FileRecord(stats.fileStats, x[1]).copilotLines > 0
        /\ stats.lastUpdated < now
        /\ Edited(x).mid.did.dropped = 1

\* ---- C4
\* C4: clamp on shrink: when updateFileStats sees a new total n below the
\* stored copilotLines c of the file, the record becomes {n, n} and the
\* aggregate copilotLines decreases by exactly c - n; when n >= c and no
\* first-content attribution applies, the file's and the aggregate
\* copilotLines are left as they were.
C4_ClampOnShrink ==
    \A x \in SessionEdits :
        \A h \in { Edited(x) } :
            h.tracked =>
                LET before == FileRecord(h.mid.stats.fileStats, x[1])
                    after == FileRecord(h.e.stats.fileStats, x[1])
                    n == x[2]
                    c == before.copilotLines
                    firstContentApplies ==
                        /\ before.totalLines = 0
                        /\ n > 0
                        /\ h.mid.pendingCopilotLines > 0
                IN  /\ n < c =>
                        /\ after = [totalLines |-> n, copilotLines |-> n]
                        /\ h.e.stats.copilotLines
                               = h.mid.stats.copilotLines - (c - n)
                        /\ h.e.did.clamps = 1
                    /\ (n >= c /\ ~firstContentApplies) =>
                        /\ after.copilotLines = c
                        /\ h.e.stats.copilotLines = h.mid.stats.copilotLines
                        /\ h.e.did.clamps = 0

\* A file with Copilot lines shrinks below them and keeps at least a line.
C4_Witness ==
    \E x \in SessionEdits :
        /\ Tracked[trackedExtensions][x[1]]
        /\ x[2] >= 1
        /\ x[2] < FileRecord(Edited(x).mid.stats.fileStats, x[1]).copilotLines
        /\ Edited(x).e.did.clamps = 1
        /\ Len(stats.fileStats) = 2

\* ---- C5
\* C5: first-content attribution: n > 0 Copilot lines applied to a file whose
\* stored total is 0, with PendingAttribution 0 before, and the file's total
\* then updated to m > 0, leave the record {m, min(n, m)} and the aggregate
\* totalLines and copilotLines m and min(n, m) larger.
C5_FirstContent ==
    \A x \in SessionEdits :
        LET n == NewLines[x[3]]
            m == x[2]
        IN  ( /\ Tracked[trackedExtensions][x[1]]
              /\ Classified[Classifier][x[3]].result
              /\ n > 0
              /\ m > 0
              /\ FileRecord(stats.fileStats, x[1]).totalLines = 0
              /\ pendingCopilotLines = 0 ) =>
            \A h \in { Edited(x) } :
                /\ h.mid.pendingCopilotLines = n
                /\ FileRecord(h.e.stats.fileStats, x[1])
                       = [totalLines |-> m, copilotLines |-> Min(n, m)]
                /\ h.e.stats.totalLines = stats.totalLines + m
                /\ h.e.stats.copilotLines = stats.copilotLines + Min(n, m)

\* More Copilot lines than the new file has lines, beside another file.
C5_Witness ==
    \E x \in SessionEdits :
        /\ Tracked[trackedExtensions][x[1]]
        /\ Classified[Classifier][x[3]].result
        /\ NewLines[x[3]] > x[2]
        /\ x[2] > 0
        /\ FileRecord(stats.fileStats, x[1]).totalLines = 0
        /\ pendingCopilotLines = 0
        /\ stats.copilotLines > 0
        /\ Edited(x).e.did.firsts = 1

\* ---- C6
\* The total update of the document d run on e a second time, at time t.
Again(e, d, t) == updateFileStats([e EXCEPT !.now = t], d)

\* C6: idempotence of the total update: updateFileStats run twice in a row
\* for a file with the same line count changes nothing the second time:
\* records, aggregate, PendingAttribution and lastUpdated stay, the
\* quick-reload slot is not written and no flush is scheduled.
C6_TotalUpdateIdempotent ==
    \A x \in SessionEdits :
        \A h \in { Edited(x) } :
            \A t \in now..MaxTime :
                h.tracked =>
                    SameAccounting(
                        Again(h.e, [path |-> x[1], lineCount |-> x[2]], t),
                        h.e)

\* The first run took the pending lines of a new file and saved; the
\* second, later, does not save again.
C6_Witness ==
    \E x \in SessionEdits :
        /\ Tracked[trackedExtensions][x[1]]
        /\ now < MaxTime
        /\ stats.totalLines > 0
        /\ \A h \in { Edited(x) } :
              /\ h.e.did.firsts = 1
              /\ h.e.did.saves = 1
              /\ Again(h.e, [path |-> x[1], lineCount |-> x[2]], now + 1).did.saves
                     = 1

\* ---- C7
\* C7: clearStats, from any reachable state, empties the per-file records and
\* sets the aggregate totalLines and copilotLines and PendingAttribution to 0.
C7_ClearResetsAll ==
    \A writeOk \in Session.writeOk :
        \A e \in { clearStats(Engine, writeOk) } :
            /\ e.stats.fileStats = <<>>
            /\ e.stats.totalLines = 0
            /\ e.stats.copilotLines = 0
            /\ e.pendingCopilotLines = 0

\* ---- C9
\* Paths with a node_modules directory or the snapshot file's name, under
\* extensions that the settings track.
RejectedWhateverExtension ==
    { "/w/node_modules/m.ts", "/w/node_modules/p/B.PY",
      "/w/.copilot-stats.json", "/w/sub/.copilot-stats.json" }

NeverTracked ==
    \A filePath \in RejectedWhateverExtension, extensions \in Configs :
        ~shouldTrackFile(filePath, extensions)

FilterEdits == Filter.paths \X Filter.lineCounts \X Filter.contentChanges

\* C9: an edit, open or re-scan event for a path the filter rejects creates
\* no per-file record, leaves the aggregate and PendingAttribution as they
\* were, writes no quick-reload slot and schedules no flush; a path with a
\* node_modules segment or ending in the snapshot file's name is rejected
\* whatever its extension.
C9_RejectedPathLeavesNoTrace ==
    /\ \A x \in FilterEdits :
          ~Tracked[trackedExtensions][x[1]] =>
              /\ SameAccounting(Edited(x).e, Engine)
              /\ SameAccounting(
                     onDidOpenTextDocument(
                         Engine, [path |-> x[1], lineCount |-> x[2]]),
                     Engine)
    /\ \A d \in Documents(Filter.paths, Filter.lineCounts),
          extensions \in Filter.configs :
          ~Tracked[extensions][d.path] =>
              SameAccounting(
                  onDidChangeConfiguration(Engine, extensions, <<d>>),
                  [Engine EXCEPT !.trackedExtensions = extensions])
    /\ NeverTracked

\* A file that was tracked and has since been excluded by the setting gets
\* an edit that would count 2 Copilot lines.
C9_Witness ==
    \E x \in FilterEdits :
        /\ ~Tracked[trackedExtensions][x[1]]
        /\ HasRecord(stats.fileStats, x[1])
        /\ FileRecord(stats.fileStats, x[1]).totalLines # x[2]
        /\ NewLines[x[3]] = 2
        /\ Edited(x).e.did.skips = 1

\* ---- C8
\* C8: clearStats, with a workspace root and a write that succeeds, writes
\* the snapshot of the cleared stats within the clear operation, even if the
\* stats were all zeros before; afterwards the snapshot file holds the zeroed
\* stats and no flush scheduled before the clear is still pending.
C8_ClearWritesAtOnce ==
    workspaceFolders =>
        \A e \in { clearStats(Engine, TRUE) } :
            /\ e.did.writes = 1
            /\ e.statsFile # <<>>
            /\ e.statsFile[1].stats = e.stats
            /\ e.timers = [fresh |-> 0, due |-> 0]

\* ---- C10
\* The aggregate and the per-file counters of a and b are the same.
SameCounters(a, b) ==
    /\ a.totalLines = b.totalLines
    /\ a.copilotLines = b.copilotLines
    /\ \A filePath \in Paths :
          FileRecord(a.fileStats, filePath) = FileRecord(b.fileStats, filePath)

WorkspaceEdits ==
    Workspace.paths \X Workspace.lineCounts \X Workspace.contentChanges

\* C10: the quick-reload slot never lags: a handler that changed the
\* aggregate or a per-file record leaves the current stats in the slot,
\* clearStats leaves it empty, and a restart between two events reloads
\* exactly the aggregate and per-file counters that were in memory.
C10_QuickReloadNeverLags ==
    /\ \A x \in WorkspaceEdits :
          \A h \in { Edited(x) } :
              ~SameCounters(h.e.stats, stats) =>
                  /\ h.e.globalState = << h.e.stats >>
                  /\ h.e.did.saves >= 1
    /\ \A writeOk \in Workspace.writeOk :
          clearStats(Engine, writeOk).globalState = <<>>
    /\ \A folders \in Workspace.folders, writeOk \in Workspace.writeOk :
          SameCounters(activate(Engine, folders, writeOk).stats, stats)

\* A restart while the snapshot file lags the Copilot lines in memory.
C10_Witness ==
    /\ workspaceFolders
    /\ stats.copilotLines > 0
    /\ statsFile # <<>>
    /\ statsFile[1].stats.copilotLines < stats.copilotLines
    /\ saveTimeout = "fresh"
    /\ activate(Engine, TRUE, TRUE).stats.copilotLines = stats.copilotLines

\* ---- C11
\* The stats of the snapshot file; no file reads as a snapshot of no lines.
DurableStats == IF statsFile = <<>> THEN EmptyStats(0) ELSE statsFile[1].stats

NoTimerPending == timers = [fresh |-> 0, due |-> 0]

\* C11: where a workspace root is resolvable, no write has failed and no
\* debounce timer is pending (right after activation and right after
\* clearStats too), the snapshot file holds the counters that are in memory.
C11_DurableLagsOnlyWhilePending ==
    (workspaceFolders /\ NoTimerPending) => SameCounters(DurableStats, stats)

\* ---- C12
\* A step that changes the snapshot file.
Written == statsFile' # statsFile

\* C12: debounce: at most one flush timer is pending at any time; a handler
\* that calls saveStats, however often, leaves exactly one fresh timer; and
\* the snapshot file is written only when that timer expires, with the
\* stats of that moment, after which no timer is pending: the mutations
\* since the previous expiry result in one write, of the state after the
\* last of them.
C12_Debounce ==
    /\ [](/\ timers.fresh + timers.due <= 1
          /\ \A x \in WorkspaceEdits :
                \A h \in { Edited(x) } :
                    h.e.did.schedules >= 1 =>
                        /\ h.e.timers = [fresh |-> 1, due |-> 0]
                        /\ h.e.saveTimeout = "fresh")
    /\ [][Written =>
            /\ timers.due = 1
            /\ timers' = [fresh |-> 0, due |-> 0]
            /\ stats' = stats
            /\ statsFile'[1].stats = stats]_vars

\* A timer is due, the file lags, and one more edit saves twice (the
\* attribution and the total update): the due timer is replaced by one.
C12_Witness ==
    /\ workspaceFolders
    /\ timers.due = 1
    /\ ~SameCounters(DurableStats, stats)
    /\ \E x \in WorkspaceEdits :
          /\ Edited(x).e.did.schedules = 2
          /\ Edited(x).e.timers = [fresh |-> 1, due |-> 0]

\* ---- C13
\* C13: the snapshot is written only when the stats differ from those of
\* the last successful write: no two consecutive successful writes carry the
\* same stats, and lastSavedStats is always the serialisation of the stats
\* of the last successful write.
C13_WrittenOnlyWhenChanged ==
    /\ [](statsFile # <<>> =>
              lastSavedStats = JSONstringify(statsFile[1].stats))
    /\ [][(Written /\ statsFile # <<>>) =>
              statsFile'[1].stats # statsFile[1].stats]_vars

\* ---- C14
TypingEdits == Typing.paths \X Typing.lineCounts \X Typing.contentChanges

\* The edit x reaches the classifier and is judged manual.
JudgedManual(x) ==
    /\ Tracked[trackedExtensions][x[1]]
    /\ ~Classified[Classifier][x[3]].result

\* The copilotLines of the file of the edit x after its total update, when
\* the attribution step added nothing: the pending lines of a file that gets
\* its first content, else the stored count clamped to the new total.
AfterTotalUpdate(x) ==
    LET r == FileRecord(stats.fileStats, x[1])
    IN  IF r.totalLines = 0 /\ x[2] > 0 /\ pendingCopilotLines > 0
        THEN Min(pendingCopilotLines, x[2])
        ELSE Min(r.copilotLines, x[2])

\* C14 as stated: after the whole handler of an edit judged manual, every
\* per-file copilotLines and the aggregate copilotLines are what they were
\* before the event.
C14_ManualEditKeepsCopilotLines ==
    \A x \in TypingEdits :
        JudgedManual(x) =>
            \A h \in { Edited(x) } :
                /\ h.e.stats.copilotLines = stats.copilotLines
                /\ \A filePath \in Paths :
                      FileRecord(h.e.stats.fileStats, filePath).copilotLines
                          = FileRecord(stats.fileStats, filePath).copilotLines

\* C14 amended: an edit judged manual adds nothing in the attribution step;
\* after its total update the file's copilotLines is the stored count
\* clamped to the new total, or min(PendingAttribution, new total) when the
\* file gets its first content with lines pending; the aggregate moves by
\* the same amount and the other files keep their counts.
C14_ManualEditOnlyClampsOrTakesPending ==
    \A x \in TypingEdits :
        JudgedManual(x) =>
            \A h \in { Edited(x) } :
                /\ SameAccounting(h.mid, Engine)
                /\ FileRecord(h.e.stats.fileStats, x[1]).copilotLines
                       = AfterTotalUpdate(x)
                /\ h.e.stats.copilotLines - stats.copilotLines
                       = AfterTotalUpdate(x)
                             - FileRecord(stats.fileStats, x[1]).copilotLines
                /\ \A filePath \in Paths \ { x[1] } :
                      FileRecord(h.e.stats.fileStats, filePath)
                          = FileRecord(stats.fileStats, filePath)

\* A manual edit leaves a file shorter than its Copilot lines.
C14_Witness ==
    \E x \in TypingEdits :
        /\ JudgedManual(x)
        /\ NewLines[x[3]] > 0
        /\ x[2] >= 1
        /\ x[2] < FileRecord(stats.fileStats, x[1]).copilotLines
        /\ Edited(x).e.did.clamps = 1

\* ---- C15
\* The non-empty lines of the span of contentChanges that the classifier
\* judged Copilot's: the one at which contentChanges.some stopped.
RECURSIVE judgedLines(_, _)
judgedLines(c, contentChanges) ==
    IF contentChanges = <<>> THEN 0
    ELSE LET first == isCopilotText(c, Head(contentChanges))
         IN  IF first.result THEN countNonEmptyLines(Head(contentChanges))
             ELSE judgedLines(first.c, Tail(contentChanges))

JudgedLines ==
    [c \in ClassifierStates |->
        [contentChanges \in ContentChangeLists |->
            judgedLines(c, contentChanges)]]

\* C15: for an edit event with several inserted spans, the count applied to
\* the attribution (added to copilotLines or to PendingAttribution) is the
\* number of non-empty lines of the spans judged AI-originated; the lines of
\* the other spans of the event are not added.
C15_OnlyJudgedSpansCounted ==
    \A x \in TypingEdits :
        Tracked[trackedExtensions][x[1]] =>
            \A h \in { Edited(x) } :
                (h.mid.pendingCopilotLines - pendingCopilotLines)
                + (h.mid.stats.copilotLines - stats.copilotLines)
                    <= JudgedLines[Classifier][x[3]]

\* ---- C16
\* The texts of inserted spans the verdicts are compared on.
SpanTexts == { "", "x", "q", "x;", "\n", "a\nb", " y) ", "ax]", "q'  " }

\* The shape heuristic of case (3).
LooksGenerated(newText) ==
    \/ Includes(newText, "\n")
    \/ \E ch \in {";", "}", ")", "]", "\"", "'"} : EndsWith(Trim(newText), ch)

\* The priority order of the verdict on newText in the classifier state c,
\* where offered says whether c holds an offered text that newText matches.
FollowsPriority(c, newText, offered) ==
    \A v \in { isCopilotText(c, newText) } :
        IF c.isAcceptingSuggestion
        THEN /\ v.result
             /\ v.c = [c EXCEPT !.isAcceptingSuggestion = FALSE]
        ELSE IF offered
        THEN /\ v.result
             /\ v.c = [c EXCEPT !.lastCopilotSuggestion = <<>>]
        ELSE /\ v.result = LooksGenerated(newText)
             /\ v.c = c

\* C16 as stated: (1) with isAcceptingSuggestion the span is AI-originated
\* and only the flag is cleared; (2) else, if an offered text is set and
\* the span contains it, the span is AI-originated and the offered text is
\* cleared; (3) else the span is AI-originated exactly when it has several
\* lines or its trimmed form ends with one of ; } ) ] " ', and no
\* classifier state changes.
C16_VerdictPriority ==
    \A newText \in SpanTexts :
        FollowsPriority(
            Classifier, newText,
            /\ lastCopilotSuggestion # <<>>
            /\ Includes(newText, lastCopilotSuggestion[1]))

\* C16 amended: the same order, where case (2) applies only to an offered
\* text that is not empty: an empty offered text matches no span and stays.
C16_VerdictPriorityNonEmptyOffer ==
    \A newText \in SpanTexts :
        FollowsPriority(
            Classifier, newText,
            /\ lastCopilotSuggestion # <<>>
            /\ lastCopilotSuggestion[1] # ""
            /\ Includes(newText, lastCopilotSuggestion[1]))

\* The flag has been consumed and the offered text "x" is still there: a
\* typed "x" is judged by case (2), a typed "q" by case (3).
C16_Witness ==
    /\ ~isAcceptingSuggestion
    /\ lastCopilotSuggestion = << "x" >>
    /\ stats.copilotLines > 0
    /\ isCopilotText(Classifier, "x").result
    /\ ~isCopilotText(Classifier, "q").result

\* ---- C17
\* C17: isAcceptingSuggestion is consumed exactly once: while it is set,
\* the first span examined (the first span of the next tracked edit with a
\* span) is judged AI-originated through it and the handler ends with the
\* flag false, however many automatic invocations came before; a span
\* examined after that is judged without the flag; and the flag becomes
\* true only by an automatic invocation of the provider, which changes
\* nothing but the classifier state.
C17_AcceptingConsumedOnce ==
    /\ [](\A x \in TypingEdits :
            (Tracked[trackedExtensions][x[1]] /\ x[3] # <<>>) =>
                \A h \in { Edited(x) } :
                    /\ ~h.c.isAcceptingSuggestion
                    /\ isAcceptingSuggestion =>
                          /\ h.isCopilotChange
                          /\ h.c.lastCopilotSuggestion = lastCopilotSuggestion
                          /\ JudgedLines[Classifier][x[3]]
                                 = countNonEmptyLines(Head(x[3]))
                    /\ \A newText \in { "x", "q" } :
                          isCopilotText(h.c, newText).result
                              = ( /\ h.c.lastCopilotSuggestion # <<>>
                                  /\ h.c.lastCopilotSuggestion[1] # ""
                                  /\ Includes(newText,
                                              h.c.lastCopilotSuggestion[1]) ))
    /\ [][(isAcceptingSuggestion' /\ ~isAcceptingSuggestion) =>
              /\ lastCopilotSuggestion' \in
                     { << l >> : l \in Typing.suggestionLines }
              /\ UNCHANGED << stats, lastSavedStats, saveTimeout, timers,
                              pendingCopilotLines, globalState, statsFile,
                              trackedExtensions, workspaceFolders, now >>]_vars

\* The flag is set over an empty offered text and the typed text "x" is
\* counted as a Copilot line through it.
C17_Witness ==
    /\ isAcceptingSuggestion
    /\ lastCopilotSuggestion = << "" >>
    /\ \E x \in TypingEdits :
          /\ x[3] = << "x" >>
          /\ Edited(x).mid.did.committed = 1
          /\ ~Edited(x).c.isAcceptingSuggestion

\* ---- C18
\* C18: when the first-content attribution fires, PendingAttribution is
\* reduced by take = min(PendingAttribution, new total): the remainder stays
\* pending.
C18_RemainderStaysPending ==
    \A x \in TypingEdits :
        \A h \in { Edited(x) } :
            h.e.did.firsts = 1 =>
                h.e.pendingCopilotLines
                    = h.mid.pendingCopilotLines
                          - Min(h.mid.pendingCopilotLines, x[2])

\* ---- C19
\* The copilotLines of the file of the edit x after the attribution of n
\* lines, decided on the record r stored before the event.
AfterAttribution(r, n) ==
    IF r.totalLines > 0 /\ r.copilotLines + n <= r.totalLines
    THEN r.copilotLines + n
    ELSE r.copilotLines

\* C19: in a tracked edit event judged AI-originated the attribution comes
\* first and the total update second: the lines are parked, committed or
\* dropped by the file's total stored before the event, whatever the
\* document's new line count is, and the total is still the stored one
\* after this step; the total change, the first-content attribution and the
\* clamp act on that result.
C19_AttributionBeforeTotalUpdate ==
    \A x \in TypingEdits :
        \A h \in { Edited(x) } :
            (h.tracked /\ h.isCopilotChange) =>
                LET r == FileRecord(stats.fileStats, x[1])
                    n == NewLines[x[3]]
                    m == x[2]
                    parked == IF r.totalLines = 0 THEN n ELSE 0
                IN  /\ FileRecord(h.mid.stats.fileStats, x[1])
                           = [totalLines |-> r.totalLines,
                              copilotLines |-> AfterAttribution(r, n)]
                    /\ h.mid.pendingCopilotLines = pendingCopilotLines + parked
                    /\ FileRecord(h.e.stats.fileStats, x[1])
                           = [totalLines |-> m,
                              copilotLines |->
                                  IF /\ r.totalLines = 0
                                     /\ m > 0
                                     /\ pendingCopilotLines + parked > 0
                                  THEN Min(pendingCopilotLines + parked, m)
                                  ELSE Min(AfterAttribution(r, n), m)]

\* A full file gets one more Copilot line while it grows by a line: the
\* line is dropped, though it fits the new total.
C19_Witness ==
    \E x \in TypingEdits :
        /\ FileRecord(stats.fileStats, x[1])
               = [totalLines |-> 1, copilotLines |-> 1]
        /\ NewLines[x[3]] = 1
        /\ x[2] = 2
        /\ Edited(x).mid.did.dropped = 1
        /\ FileRecord(Edited(x).e.stats.fileStats, x[1])
               = [totalLines |-> 2, copilotLines |-> 1]

\* ---- C20
\* The stats, the pending lines, the slot, the marker and the file of a and
\* b are the same.
SameStored(a, b) ==
    /\ a.stats = b.stats
    /\ a.pendingCopilotLines = b.pendingCopilotLines
    /\ a.globalState = b.globalState
    /\ a.lastSavedStats = b.lastSavedStats
    /\ a.statsFile = b.statsFile

Unsaved == JSONstringify(stats) # lastSavedStats

\* C20: a flush that cannot complete, for want of a workspace root or
\* because the write throws, leaves the stats, PendingAttribution, the
\* quick-reload slot and lastSavedStats unchanged; the next flush with a
\* root and a write that succeeds writes the state that is still unsaved.
C20_FailedFlushKeepsUnsavedState ==
    \A failed \in { saveStatsToFile(Engine, FALSE),
                    saveStatsToFile(
                        [Engine EXCEPT !.workspaceFolders = FALSE], TRUE) } :
        /\ SameStored(failed, Engine)
        /\ failed.did.writes = 0
        /\ failed.did.failures = IF failed.workspaceFolders /\ Unsaved
                                 THEN 1 ELSE 0
        /\ \A next \in { saveStatsToFile(
                             [failed EXCEPT !.workspaceFolders = TRUE,
                                            !.did = NoEffects], TRUE) } :
              Unsaved =>
                  /\ next.did.writes = 1
                  /\ next.statsFile[1].stats = stats
                  /\ next.lastSavedStats = JSONstringify(stats)

\* The timer has expired and its write has failed: the stats are unsaved,
\* no timer is pending, the file is still missing.
C20_Witness ==
    /\ workspaceFolders
    /\ saveTimeout = "expired"
    /\ NoTimerPending
    /\ Unsaved
    /\ stats.copilotLines > 0
    /\ statsFile = <<>>
    /\ saveStatsToFile(Engine, FALSE).did.failures = 1

\* ---- C21
\* The paths that have a record.
RecordPaths(s) == { s.fileStats[i].path : i \in 1..Len(s.fileStats) }

\* C21: per-file records are never deleted one by one: a step of an edit,
\* open, configuration-change or timer event keeps every record, also that
\* of a path the filter has come to reject, and clearStats removes them all.
C21_RecordsOnlyWipedTogether ==
    /\ [](\A writeOk \in Filter.writeOk :
            clearStats(Engine, writeOk).stats.fileStats = <<>>)
    /\ [][\/ RecordPaths(stats) \subseteq RecordPaths(stats')
          \/ /\ stats' = EmptyStats(now)
             /\ globalState' = <<>>]_vars

\* The setting has come to reject a file that has a record with lines,
\* beside a file it still tracks; a re-scan of the rejected file keeps it.
C21_Witness ==
    /\ ~Tracked[trackedExtensions]["/w/a.ts"]
    /\ FileRecord(stats.fileStats, "/w/a.ts").totalLines > 0
    /\ HasRecord(stats.fileStats, "/w/B.PY")
    /\ HasRecord(
           onDidChangeConfiguration(
               Engine, trackedExtensions,
               << [path |-> "/w/a.ts", lineCount |-> 0] >>).stats.fileStats,
           "/w/a.ts")

\* ---- C22
NonEmptyEdits == NonEmpty.paths \X NonEmpty.lineCounts \X NonEmpty.contentChanges

\* C22: when every document reports at least one line, PendingAttribution
\* is 0 after every completed handler: the lines an edit adds to it are
\* taken or discarded by the total update of the same file in the same
\* handler, so none is left to be attributed to another file.
C22_NothingPendingBetweenHandlers ==
    /\ pendingCopilotLines = 0
    /\ \A x \in NonEmptyEdits :
          \A h \in { Edited(x) } :
              /\ h.e.pendingCopilotLines = 0
              /\ h.mid.pendingCopilotLines > 0 =>
                    /\ h.e.did.firsts = 1
                    /\ FileRecord(h.e.stats.fileStats, x[1]).copilotLines
                           = Min(h.mid.pendingCopilotLines, x[2])
                    /\ \A filePath \in Paths \ { x[1] } :
                          FileRecord(h.e.stats.fileStats, filePath)
                              = FileRecord(stats.fileStats, filePath)

\* One file has lines and no record exists for the other, which gets an
\* edit of two Copilot lines while its document reports one line.
C22_Witness ==
    /\ stats.totalLines > 0
    /\ \E x \in NonEmptyEdits :
          /\ ~HasRecord(stats.fileStats, x[1])
          /\ x[2] = 1
          /\ Edited(x).mid.pendingCopilotLines = 2
          /\ Edited(x).e.pendingCopilotLines = 0

====
